---- MODULE Spec2Model ----
(***************************************************************************)
(* Workflow orchestration engine of backend/shared/agent/                  *)
(* orchestrator_agent.py: Task, Workflow, WorkflowEngine and the workflow  *)
(* commands of OrchestratorAgent, on one asyncio event loop.               *)
(*                                                                         *)
(* asyncio is cooperative: a coroutine keeps the event loop until it       *)
(* reaches an await that really suspends.  The variable cur names the      *)
(* engine whose execute() coroutine holds the loop (0: the loop is idle    *)
(* and picks any coroutine that is ready to continue).  Every action is    *)
(* one segment of one coroutine; a coroutine other than the holder moves   *)
(* only when cur = 0.                                                      *)
(*                                                                         *)
(* asyncio.create_task(coro) schedules coro on the loop.  With the default *)
(* task factory coro starts only once the creator has suspended; with      *)
(* asyncio.eager_task_factory (Python 3.12) coro runs at once, inside      *)
(* create_task, up to its first suspension.  The repository fixes neither  *)
(* the interpreter nor the loop, so the factory is an input: eager_start.  *)
(***************************************************************************)
EXTENDS Integers, Sequences, FiniteSets, TLC

\* ---- bounds of the model ----
MaxRuns == 1       \* execute_workflow calls that find a template
MaxSpawn == 2      \* cap of the count of scheduled, not yet started coroutines of one task
MaxClock == 2      \* last value of time.time()
MaxReadyLen == 2   \* longest task list get_next_tasks is queried on
MaxMessages == 3   \* cap of the messages agent.process appends to one session

\* ---- TaskStatus / WorkflowStatus (enum values) ----
PENDING == "pending"
IN_PROGRESS == "in_progress"
COMPLETED == "completed"
FAILED == "failed"
CANCELLED == "cancelled"
PAUSED == "paused"

\* task.result = None (the results are tuples)
NoResult == << >>

\* None, and the messages the engine writes
None == "none"
ErrStuck == "Workflow is stuck with no runnable tasks"
ErrTasksFailed == "One or more tasks failed"
ErrRetrying == "Error executing task. Retrying..."
ErrTask == "Error executing task"
ErrCallback == "callback error"     \* str(e) of what a workflow callback raised

\* start_time / end_time = None (the times are numbers)
NoTime == -1

\* the workflow ids the definitions carry and the commands are called with,
\* and the ids str(uuid.uuid4()) returns
IdOrder == << "w1", "u1" >>
CallerIds == {"w1"}
GeneratedIds == {"u1"}
WorkflowIds == {IdOrder[n] : n \in 1..Len(IdOrder)}

\* what a workflow definition may lack
Defects == {"none", "no_id", "no_name", "task_no_id", "task_no_agent_type"}

\* timeout=None, and the timeout of the task that has one, in clock ticks
NoTimeout == -1
TaskTimeout == 1

\* Task.__init__: the definition fields and the runtime attributes; params is
\* a dict (a function on its keys)
TaskWithParams(id, dependencies, retry_limit, params) ==
    [id |-> id, dependencies |-> dependencies, retry_limit |-> retry_limit,
     params |-> params, timeout |-> NoTimeout,
     status |-> PENDING, result |-> NoResult, error |-> None, retry_count |-> 0]

\* a task with params = {}
Task(id, dependencies, retry_limit) == TaskWithParams(id, dependencies, retry_limit, <<>>)

\* the tenant and user the orchestrator was created for, and another tenant's
TenantId == "t1"
UserId == "usr1"
OtherTenantId == "t2"
OtherUserId == "usr2"

\* The sessions of the HTTP entry point. "s1" is the session of the orchestrator
\* agent whose workflows and engines the model tracks: create_orchestrator_agent
\* stored it with the metadata of the tenant and user it was created for. "s2"
\* is the id uuid4 gives the next session. A session's messages are the user
\* messages agent.process has appended to it (line 610).
SessionIds == {"s1", "s2"}
NextSessionId == "s2"
NoSession == [tenant_id |-> None, user_id |-> None, messages |-> 0]
StoredSessions ==
    [s \in SessionIds |-> IF s = "s1"
                          THEN [tenant_id |-> TenantId, user_id |-> UserId, messages |-> 0]
                          ELSE NoSession]

\* who main() authenticated: the owner of "s1", another user of the same
\* tenant, and the same user id in another tenant
Callers == {[tenant_id |-> TenantId, user_id |-> UserId],
            [tenant_id |-> TenantId, user_id |-> OtherUserId],
            [tenant_id |-> OtherTenantId, user_id |-> UserId]}

\* no request yet
NoRequest == [seq |-> 0, method |-> None, tenant_id |-> None, user_id |-> None,
              session_id |-> None, workflow_id |-> None]

\* Workflow.__init__: tasks is a reference to the list of Task objects
Workflow(id, tasksRef) ==
    [id |-> id, tasks |-> tasksRef, status |-> PENDING, error |-> None,
     start_time |-> NoTime, end_time |-> NoTime]

\* The workflow definitions create_workflow is given: the tasks of each
ChainDef == << Task("A", <<>>, 1), Task("B", <<"A">>, 1), Task("C", <<"B">>, 1) >>
ParallelDef == << Task("X", <<>>, 2), Task("Y", <<>>, 0) >>
GhostDef == << Task("M", <<"ghost">>, 1), Task("N", <<>>, 1) >>
EmptyDef == << >>
\* two independent tasks, one with a tenant_id and a user_id among its params
ScopedDef == << TaskWithParams("X", <<>>, 1, [tenant_id |-> OtherTenantId, user_id |-> OtherUserId]),
                Task("Y", <<>>, 1) >>
Definitions == {ChainDef, ParallelDef, GhostDef, EmptyDef}
\* the definitions of the specification that runs a stored template several times
ReuseDefinitions == {ChainDef, EmptyDef}
\* the definitions of the specification with defective definitions
CreateDefinitions == {ChainDef, EmptyDef}
\* one task with a timeout and one retry
TimedDef == << [Task("X", <<>>, 2) EXCEPT !.timeout = TaskTimeout] >>
\* the definitions of the specification with a task timeout
TimeoutDefinitions == {TimedDef, EmptyDef}
\* the definitions of the specification with task params
TenantDefinitions == {ScopedDef, EmptyDef}
\* the definitions of the specification with the clock and the callbacks
EngineDefinitions == {ParallelDef, GhostDef, EmptyDef}

\* "U": the task id str(uuid.uuid4()) returns
TaskIds == {"A", "B", "C", "X", "Y", "M", "N", "U"}

\* what the gateway answers to the n-th call made for task t (response.content)
Response(t, n) == <<t, n>>

VARIABLES
    eager_start, \* task factory of the event loop: TRUE eager, FALSE default
    heap,        \* Workflow objects, by reference (index)
    theap,       \* lists of Task objects, by reference (index)
    workflows,   \* OrchestratorAgent.workflows: id -> Workflow reference (0: absent)
    engines,     \* OrchestratorAgent.engines: id -> engine reference (0: absent)
    engs,        \* WorkflowEngine objects with their execute() coroutine
    cur,         \* engine whose execute() holds the event loop, 0 when idle
    now,         \* what time.time() returns
    call,        \* the get_status call that is suspended in its session writes
    resp,        \* the response a command returns in this step (NoResponse: none)
    fresh,       \* history: the ids created and not executed since
    hist,        \* per engine: what happened so far (history, not program state)
    sessions,    \* session_manager: session id -> stored session (NoSession: absent)
    req          \* history: the HTTP request that main() handled last

vars == <<eager_start, heap, theap, workflows, engines, engs, cur, now, call, resp, fresh, hist,
         sessions, req>>

\* no call, no response
NoCall == [id |-> None, fresh |-> FALSE]
NoResponse == [kind |-> None, command |-> None]

\* The template stored under an id lives at the reference kept for that id:
\* the Workflow a second create_workflow replaces is referenced by nothing
\* any more, and the new one takes its place.
TemplateRef(id) == CHOOSE n \in 1..Len(IdOrder) : IdOrder[n] = id

Engines == 1..Len(engs)

\* the workflow object and the task list of engine e
WfOf(e) == heap[engs[e].workflow]
TasksOf(e) == theap[WfOf(e).tasks]
TaskIdx(e) == 1..Len(TasksOf(e))

\* ---- Workflow queries ----

\* Workflow.get_task: index of the first task with this id, 0 when there is none
get_task(tasks, task_id) ==
    IF \E i \in 1..Len(tasks) : tasks[i].id = task_id
    THEN CHOOSE i \in 1..Len(tasks) :
            /\ tasks[i].id = task_id
            /\ \A j \in 1..(i-1) : tasks[j].id # task_id
    ELSE 0

\* (mutant) readiness that looks at the task's own status only
IsReady_IgnoresDependencies(tasks, i) == tasks[i].status = PENDING

\* one task's test inside Workflow.get_next_tasks
IsReady(tasks, i) ==
    /\ tasks[i].status = PENDING
    /\ \A k \in 1..Len(tasks[i].dependencies) :
          LET d == get_task(tasks, tasks[i].dependencies[k])
          IN  d # 0 /\ tasks[d].status = COMPLETED

RECURSIVE ReadyFrom(_, _)
ReadyFrom(tasks, i) ==
    IF i > Len(tasks) THEN <<>>
    ELSE (IF IsReady(tasks, i) THEN <<i>> ELSE <<>>) \o ReadyFrom(tasks, i + 1)

\* (mutant) the loop over the tasks stops at the first ready task
get_next_tasks_FirstOnly(tasks) ==
    IF ReadyFrom(tasks, 1) = <<>> THEN <<>> ELSE <<Head(ReadyFrom(tasks, 1))>>

\* Workflow.get_next_tasks: the ready tasks (as indices), in list order
get_next_tasks(tasks) == ReadyFrom(tasks, 1)

\* (mutant) a workflow without tasks is not complete
is_complete_NonEmpty(tasks) ==
    /\ Len(tasks) > 0
    /\ \A i \in 1..Len(tasks) : tasks[i].status \in {COMPLETED, FAILED, CANCELLED}

\* Workflow.is_complete
is_complete(tasks) ==
    \A i \in 1..Len(tasks) : tasks[i].status \in {COMPLETED, FAILED, CANCELLED}

\* (mutant) only the last task is looked at
has_failed_tasks_LastOnly(tasks) ==
    Len(tasks) > 0 /\ tasks[Len(tasks)].status = FAILED

\* Workflow.has_failed_tasks
has_failed_tasks(tasks) ==
    \E i \in 1..Len(tasks) : tasks[i].status = FAILED

\* ---- construction ----

\* WorkflowEngine.__init__ followed by set_workflow; pc is the position of
\* the engine's execute() coroutine, batch the rest of next_tasks in the for loop
WorkflowEngine(wfRef) ==
    [workflow |-> wfRef, is_running |-> FALSE, active_tasks |-> {},
     tenant_id |-> TenantId, user_id |-> UserId,
     on_workflow_complete |-> FALSE,      \* a callback is registered (None: FALSE)
     on_workflow_failed |-> FALSE,
     on_task_complete |-> FALSE,
     on_task_failed |-> FALSE,
     pc |-> "created", batch |-> <<>>,
     sched |-> [t \in TaskIds |-> 0],     \* _execute_task coroutines created, not started
     waiting |-> [t \in TaskIds |-> 0],   \* _execute_task coroutines suspended in the gateway call
     incb |-> [t \in TaskIds |-> None],   \* the callback the task's coroutine is awaiting
     ret |-> None]                        \* status of the workflow execute() returned

\* the event types set_callback knows
WorkflowEvents == {"workflow_complete", "workflow_failed"}
CallbackEvents == {"task_complete", "task_failed"} \cup WorkflowEvents

NewHist ==
    [attempts |-> [t \in TaskIds |-> 0],  \* gateway calls made for the task
     dispatched |-> {},                   \* tasks create_task was called for
     gold |-> [t \in TaskIds |-> NoResult],   \* what the gateway returned last for the task
     kwargs |-> [t \in TaskIds |-> <<>>],  \* the keyword arguments of the last create_session for the task
     metadata |-> [t \in TaskIds |-> <<>>],    \* its session metadata
     sent |-> [t \in TaskIds |-> NoTime],      \* the time of that call
     wf_calls |-> [ev \in WorkflowEvents |-> 0],   \* times each workflow callback was awaited
     task_calls |-> [t \in TaskIds |-> [task_complete |-> 0, task_failed |-> 0]],  \* the same for the task callbacks
     stopped |-> FALSE,                   \* stop() was called between the start and the return of execute()
     snap |-> <<>>,                       \* the task list at that stop()
     snapDispatched |-> {}]               \* dispatched at that stop()

Init ==
    /\ eager_start \in BOOLEAN
    /\ heap = [n \in 1..Len(IdOrder) |-> Workflow(None, n)]
    /\ theap = [n \in 1..Len(IdOrder) |-> <<>>]
    /\ workflows = [w \in WorkflowIds |-> 0]
    /\ engines = [w \in WorkflowIds |-> 0]
    /\ engs = <<>>
    /\ cur = 0
    /\ now = 0
    /\ call = NoCall
    /\ resp = NoResponse
    /\ fresh = {}
    /\ hist = <<>>
    /\ sessions = StoredSessions
    /\ req = NoRequest

\* ---- OrchestratorAgent commands (each changes the state in one segment) ----

\* (mutant) the answer to a missing workflow reports a started run
NotFound_Started(command, id) ==
    [kind |-> "started", command |-> command, workflow_id |-> id, error |-> None]

\* the error response for an id that is not registered (lines 862-879, 1105-1121, 964-981)
NotFound(command, id) ==
    [kind |-> "error", command |-> command, workflow_id |-> id, error |-> "workflow_not_found"]

\* str(uuid.uuid4()): an id that is not in use
uuid4 == CHOOSE u \in GeneratedIds : workflows[u] = 0

\* lines 747-776: what raises while the tasks and the workflow are built:
\* task_data["agent_type"] and workflow_data["name"] (KeyError)
CreateFails(d, defect) ==
    \/ defect = "no_name"
    \/ defect = "task_no_agent_type" /\ d # <<>>

\* _create_workflow, lines 745-828, for a definition with id id and tasks d
\* (the defect is in its first task, or in the workflow's own fields)
CreateWorkflow(id, d, defect) ==
    /\ cur = 0
    /\ IF CreateFails(d, defect)
       THEN /\ resp' = [kind |-> "error", command |-> "create", workflow_id |-> None,
                        error |-> "KeyError"]
            /\ UNCHANGED <<theap, heap, workflows>>
       ELSE LET sid == IF defect = "no_id" THEN uuid4 ELSE id
                tasks == IF defect = "task_no_id" /\ d # <<>>
                         THEN [d EXCEPT ![1].id = "U"]
                         ELSE d
            IN  /\ theap' = [theap EXCEPT ![TemplateRef(sid)] = tasks]
                /\ heap' = [heap EXCEPT ![TemplateRef(sid)] = Workflow(sid, TemplateRef(sid))]
                /\ workflows' = [workflows EXCEPT ![sid] = TemplateRef(sid)]
                /\ resp' = [kind |-> "created", command |-> "create", workflow_id |-> sid]
    /\ UNCHANGED <<eager_start, engines, engs, cur, hist, now, call>>

\* (mutant) copy.copy(workflow): a new Workflow object that shares the task list
deepcopy_Shallow(wfRef, newTasksRef) == heap[wfRef]

\* copy.deepcopy(workflow): a new Workflow object with a new list of new Task objects
deepcopy(wfRef, newTasksRef) == [heap[wfRef] EXCEPT !.tasks = newTasksRef]

\* _execute_workflow, lines 860-926
ExecuteWorkflow(id) ==
    /\ cur = 0
    /\ IF workflows[id] = 0
       THEN /\ resp' = NotFound("execute", id)
            /\ UNCHANGED <<heap, theap, engs, hist, engines, cur>>
       ELSE /\ LET copy == deepcopy(workflows[id], Len(theap) + 1)
               IN  /\ theap' = IF copy.tasks = Len(theap) + 1
                               THEN Append(theap, theap[heap[workflows[id]].tasks])
                               ELSE theap
                   /\ heap' = Append(heap, copy)
            /\ engs' = Append(engs, WorkflowEngine(Len(heap) + 1))
            /\ hist' = Append(hist, NewHist)
            /\ engines' = [engines EXCEPT ![id] = Len(engs) + 1]
            \* asyncio.create_task(engine.execute()): eager runs it now, inside the call
            /\ cur' = IF eager_start THEN Len(engs) + 1 ELSE 0
            /\ resp' = [kind |-> "started", command |-> "execute", workflow_id |-> id]
    /\ UNCHANGED <<eager_start, workflows, now, call>>

\* WorkflowEngine.stop
stop(e) ==
    /\ engs' = [engs EXCEPT ![e].is_running = FALSE]
    /\ heap' = [heap EXCEPT ![engs[e].workflow].status = CANCELLED]

\* _stop_workflow, lines 1102-1150
StopWorkflow(id) ==
    /\ cur = 0
    /\ IF engines[id] = 0
       THEN /\ resp' = NotFound("stop", id)
            /\ UNCHANGED <<heap, engs, hist>>
       ELSE LET e == engines[id]
            IN  /\ stop(e)
                /\ hist' = IF engs[e].pc \in {"created", "returned"} \/ hist[e].stopped
                           THEN hist
                           ELSE [hist EXCEPT ![e].stopped = TRUE,
                                             ![e].snap = TasksOf(e),
                                             ![e].snapDispatched = hist[e].dispatched]
                /\ resp' = [kind |-> "stopped", command |-> "stop", workflow_id |-> id]
    /\ UNCHANGED <<eager_start, theap, workflows, engines, cur, now, call>>

\* ---- WorkflowEngine.execute, one action per segment of the coroutine ----

\* (mutant) the write goes to every task of the list
SetTask_EveryTask(e, i, t) ==
    LET old == TasksOf(e)
    IN  [theap EXCEPT ![WfOf(e).tasks] = [j \in DOMAIN old |-> [t EXCEPT !.id = old[j].id]]]

SetTask(e, i, t) == [theap EXCEPT ![WfOf(e).tasks][i] = t]

\* lines 343-349: the coroutine starts (default factory: when the loop is
\* idle; eager factory: inside create_task, where cur was handed over)
ExecuteBegin(e) ==
    /\ engs[e].pc = "created"
    /\ cur = IF eager_start THEN e ELSE 0
    /\ cur' = e
    /\ heap' = [heap EXCEPT ![engs[e].workflow].status = IN_PROGRESS,
                            ![engs[e].workflow].start_time = now]
    /\ engs' = [engs EXCEPT ![e].is_running = TRUE, ![e].pc = "loop"]
    /\ resp' = NoResponse
    /\ UNCHANGED <<eager_start, theap, workflows, engines, hist, now, call, fresh, sessions, req>>

\* (mutant) a while test that does not look at is_running
LoopContinues_IgnoresStop(e) == ~is_complete(TasksOf(e))

\* line 353: while self.is_running and not self.workflow.is_complete()
LoopContinues(e) == engs[e].is_running /\ ~is_complete(TasksOf(e))

\* (mutant) the active-task set is not looked at
HasActiveTasks_Never(e) == FALSE

\* line 359: if self.active_tasks
HasActiveTasks(e) == engs[e].active_tasks # {}

\* lines 353-367: the while test, get_next_tasks, and the empty-ready-set branch
LoopTest(e) ==
    /\ cur = e
    /\ engs[e].pc = "loop"
    /\ LET tasks == TasksOf(e)
           next_tasks == get_next_tasks(tasks)
       IN  IF ~LoopContinues(e)
           THEN /\ engs' = [engs EXCEPT ![e].pc = "final"]
                /\ UNCHANGED <<heap, cur>>
           ELSE IF next_tasks = <<>>
           THEN IF HasActiveTasks(e)
                THEN \* await asyncio.sleep(0.1)
                     /\ engs' = [engs EXCEPT ![e].pc = "sleeping"]
                     /\ cur' = 0
                     /\ UNCHANGED heap
                ELSE \* stuck
                     /\ heap' = [heap EXCEPT ![engs[e].workflow].status = FAILED,
                                             ![engs[e].workflow].error = ErrStuck]
                     /\ engs' = [engs EXCEPT ![e].pc = "final"]
                     /\ UNCHANGED cur
           ELSE /\ engs' = [engs EXCEPT ![e].pc = "dispatch", ![e].batch = next_tasks]
                /\ UNCHANGED <<heap, cur>>
    /\ resp' = NoResponse
    /\ UNCHANGED <<eager_start, theap, workflows, engines, hist, now, call, fresh, sessions, req>>

\* line 371: asyncio.create_task(self._execute_task(task)) for the next task of the batch
CreateTask(e) ==
    /\ cur = e
    /\ engs[e].pc = "dispatch"
    /\ LET t == TasksOf(e)[Head(engs[e].batch)].id
       IN  /\ engs' = IF eager_start
                      THEN [engs EXCEPT ![e].pc = "starting"]
                      ELSE [engs EXCEPT ![e].pc = "add",
                                        ![e].sched[t] = IF @ < MaxSpawn THEN @ + 1 ELSE @]
           /\ hist' = [hist EXCEPT ![e].dispatched = @ \cup {t}]
    /\ resp' = NoResponse
    /\ UNCHANGED <<eager_start, heap, theap, workflows, engines, cur, now, call, fresh, sessions, req>>

\* (mutant) the for loop steps on without recording the id
AddActive_Skips(e) ==
    /\ cur = e
    /\ engs[e].pc = "add"
    /\ LET rest == Tail(engs[e].batch)
       IN  engs' = [engs EXCEPT ![e].batch = rest,
                                ![e].pc = IF rest = <<>> THEN "loop" ELSE "dispatch"]
    /\ resp' = NoResponse
    /\ UNCHANGED <<eager_start, heap, theap, workflows, engines, cur, hist, now, call, fresh, sessions, req>>

\* line 372: self.active_tasks.add(task.id), and the for loop's step
AddActive(e) ==
    /\ cur = e
    /\ engs[e].pc = "add"
    /\ LET t == TasksOf(e)[Head(engs[e].batch)].id
           rest == Tail(engs[e].batch)
       IN  engs' = [engs EXCEPT ![e].active_tasks = @ \cup {t},
                                ![e].batch = rest,
                                ![e].pc = IF rest = <<>> THEN "loop" ELSE "dispatch"]
    /\ resp' = NoResponse
    /\ UNCHANGED <<eager_start, heap, theap, workflows, engines, cur, hist, now, call, fresh, sessions, req>>

\* the moment the while loop is re-entered after await asyncio.sleep(0.1)
Wake(e) ==
    /\ cur = 0
    /\ engs[e].pc = "sleeping"
    /\ cur' = e
    /\ engs' = [engs EXCEPT ![e].pc = "loop"]
    /\ resp' = NoResponse
    /\ UNCHANGED <<eager_start, heap, theap, workflows, engines, hist, now, call, fresh, sessions, req>>

\* lines 374-386: the final status, before the callback is awaited
FinalStatus(wf, tasks) ==
    IF is_complete(tasks)
    THEN IF has_failed_tasks(tasks)
         THEN [wf EXCEPT !.status = FAILED, !.error = ErrTasksFailed]
         ELSE [wf EXCEPT !.status = COMPLETED]
    ELSE wf

\* the callback lines 380-386 await, if there is one
FinalCallback(e, wf, tasks) ==
    /\ is_complete(tasks)
    /\ IF wf.status = FAILED THEN engs[e].on_workflow_failed
                             ELSE engs[e].on_workflow_complete

\* the callbacks awaited on lines 380-386 and, when that callback raised
\* (caught), on lines 397-398, added to the count c
WorkflowCalls(e, wf, tasks, caught) ==
    LET c == hist[e].wf_calls
        first == IF ~FinalCallback(e, wf, tasks) THEN None
                 ELSE IF wf.status = FAILED THEN "workflow_failed" ELSE "workflow_complete"
        c1 == IF first = None THEN c ELSE [c EXCEPT ![first] = @ + 1]
    IN  IF caught /\ engs[e].on_workflow_failed
        THEN [c1 EXCEPT !["workflow_failed"] = @ + 1]
        ELSE c1

\* (mutant) an except clause that does not stamp end_time
ExceptClause_NoEndTime(wf) == [wf EXCEPT !.status = FAILED, !.error = ErrCallback]

\* lines 391-395: the except clause of execute()
ExceptClause(wf) == [wf EXCEPT !.status = FAILED, !.error = ErrCallback, !.end_time = now]

\* lines 374-402: final status, callback, end_time, return; the except clause
\* when the callback raised (cb1), where on_workflow_failed is awaited again
\* and execute() raises what it raises (cb2); the finally clause.  The
\* callbacks run without suspending.
Final(e, cb1, cb2) ==
    /\ cur = e
    /\ engs[e].pc = "final"
    /\ LET wf == FinalStatus(WfOf(e), TasksOf(e))
           caught == FinalCallback(e, wf, TasksOf(e)) /\ cb1 = "raise"
           escapes == caught /\ engs[e].on_workflow_failed /\ cb2 = "raise"
           wf2 == IF caught
                  THEN ExceptClause(wf)
                  ELSE [wf EXCEPT !.end_time = now]
       IN  /\ heap' = [heap EXCEPT ![engs[e].workflow] = wf2]
           /\ engs' = [engs EXCEPT ![e].pc = IF escapes THEN "raised" ELSE "returned",
                                   ![e].is_running = FALSE,
                                   ![e].ret = IF escapes THEN None ELSE wf2.status]
           /\ hist' = [hist EXCEPT ![e].wf_calls = WorkflowCalls(e, wf, TasksOf(e), caught)]
    /\ cur' = 0
    /\ resp' = NoResponse
    /\ UNCHANGED <<eager_start, theap, workflows, engines, now, call, fresh, sessions, req>>

\* WorkflowEngine.set_callback, on a registered engine
SetCallback(e, event_type) ==
    /\ cur = 0
    /\ engs' = CASE event_type = "task_complete" -> [engs EXCEPT ![e].on_task_complete = TRUE]
                 [] event_type = "task_failed" -> [engs EXCEPT ![e].on_task_failed = TRUE]
                 [] event_type = "workflow_complete" -> [engs EXCEPT ![e].on_workflow_complete = TRUE]
                 [] event_type = "workflow_failed" -> [engs EXCEPT ![e].on_workflow_failed = TRUE]
                 [] OTHER -> engs
    /\ resp' = NoResponse
    /\ UNCHANGED <<eager_start, heap, theap, workflows, engines, cur, now, hist, call, fresh, sessions, req>>

\* time passes
Tick ==
    /\ now < MaxClock
    /\ now' = now + 1
    /\ resp' = NoResponse
    /\ UNCHANGED <<eager_start, heap, theap, workflows, engines, engs, cur, hist, call, fresh, sessions, req>>

\* ---- WorkflowEngine._execute_task ----

\* lines 469-487: the except branch
TaskFailure(task) ==
    LET n == task.retry_count + 1
    IN  IF n < task.retry_limit
        THEN [task EXCEPT !.retry_count = n, !.status = PENDING, !.error = ErrRetrying]
        ELSE [task EXCEPT !.retry_count = n, !.status = FAILED, !.error = ErrTask]

\* (mutant) the task is completed, the result not stored
TaskSuccess_DropsResult(task, v) == [task EXCEPT !.status = COMPLETED]

\* lines 456-463: the result is stored and the task completed
TaskSuccess(task, v) == [task EXCEPT !.result = v, !.status = COMPLETED]

\* lines 469-491 for engine record e1: the except branch has written task2;
\* a task that is now FAILED has its callback awaited (lines 486-487), and
\* then the finally clause discards the id
AfterFailure(e1, task2) ==
    IF task2.status = FAILED /\ e1.on_task_failed
    THEN [e1 EXCEPT !.incb[task2.id] = "task_failed"]
    ELSE [e1 EXCEPT !.active_tasks = @ \ {task2.id}]

\* lines 486-487 in the history h of the engine: on_task_failed is awaited
CallsAfterFailure(h, e1, task2) ==
    IF task2.status = FAILED /\ e1.on_task_failed
    THEN [h EXCEPT !.task_calls[task2.id].task_failed = @ + 1]
    ELSE h

\* dict.update: the keys of b are laid over a
update(a, b) ==
    [k \in (DOMAIN a) \cup (DOMAIN b) |-> IF k \in DOMAIN b THEN b[k] ELSE a[k]]

\* lines 424-430: agent_params, the keyword arguments of create_session
agent_params(e, task) ==
    update([tenant_id |-> engs[e].tenant_id, user_id |-> engs[e].user_id], task.params)

\* lines 435-440: the tenant and user of the session metadata
session_metadata(e, task) ==
    [tenant_id |-> engs[e].tenant_id, user_id |-> engs[e].user_id]

\* lines 416-445: the first segment of the coroutine, up to the gateway call
\* (create_session, agent.process).  The call either suspends, or raises
\* before it suspends (no factory for the agent type, session_manager.py:477).
ExecuteTaskBegin(e, i, out) ==
    /\ i \in TaskIdx(e)
    /\ LET t == TasksOf(e)[i].id
           task == TasksOf(e)[i]
           eager == /\ eager_start /\ cur = e /\ engs[e].pc = "starting"
                    /\ i = Head(engs[e].batch)
           lazy == ~eager_start /\ cur = 0 /\ engs[e].sched[t] > 0
           e1 == IF eager THEN [engs[e] EXCEPT !.pc = "add"]
                          ELSE [engs[e] EXCEPT !.sched[t] = @ - 1]
           failed == TaskFailure([task EXCEPT !.status = IN_PROGRESS])
       IN  /\ eager \/ lazy
           /\ IF ~engs[e].is_running
              THEN /\ engs' = [engs EXCEPT ![e] = e1]
                   /\ UNCHANGED <<theap, hist>>
              ELSE /\ LET h == [hist[e] EXCEPT !.attempts[t] = @ + 1,
                                                  !.kwargs[t] = agent_params(e, task),
                                                  !.metadata[t] = session_metadata(e, task),
                                                  !.sent[t] = now]
                      IN  hist' = [hist EXCEPT ![e] = IF out = "suspend" THEN h
                                                      ELSE CallsAfterFailure(h, e1, failed)]
                   /\ IF out = "suspend"
                      THEN /\ theap' = SetTask(e, i, [task EXCEPT !.status = IN_PROGRESS])
                           /\ engs' = [engs EXCEPT ![e] = [e1 EXCEPT !.waiting[t] = @ + 1]]
                      ELSE /\ theap' = SetTask(e, i, failed)
                           /\ engs' = [engs EXCEPT ![e] = AfterFailure(e1, failed)]
    /\ resp' = NoResponse
    /\ UNCHANGED <<eager_start, heap, workflows, engines, cur, now, call, fresh, sessions, req>>

\* lines 454-491: the gateway call returns or raises; the coroutine runs to
\* its end, or to the callback it awaits
GatewayReturn(e, i, out) ==
    /\ cur = 0
    /\ i \in TaskIdx(e)
    /\ LET t == TasksOf(e)[i].id
           task == TasksOf(e)[i]
           e1 == [engs[e] EXCEPT !.waiting[t] = @ - 1]
       IN  /\ engs[e].waiting[t] > 0
           /\ IF out = "return"
              THEN /\ theap' = SetTask(e, i, TaskSuccess(task, Response(t, hist[e].attempts[t])))
                   /\ hist' = [hist EXCEPT ![e].gold[t] = Response(t, hist[e].attempts[t]),
                                           ![e].task_calls[t].task_complete =
                                               IF e1.on_task_complete THEN @ + 1 ELSE @]
                   /\ engs' = [engs EXCEPT ![e] =
                                 IF e1.on_task_complete
                                 THEN [e1 EXCEPT !.incb[t] = "task_complete"]
                                 ELSE [e1 EXCEPT !.active_tasks = @ \ {t}]]
              ELSE /\ theap' = SetTask(e, i, TaskFailure(task))
                   /\ engs' = [engs EXCEPT ![e] = AfterFailure(e1, TaskFailure(task))]
                   /\ hist' = [hist EXCEPT ![e] = CallsAfterFailure(@, e1, TaskFailure(task))]
    /\ resp' = NoResponse
    /\ UNCHANGED <<eager_start, heap, workflows, engines, cur, now, call, fresh, sessions, req>>

\* lines 466-491: the awaited callback returns or raises.  What
\* on_task_complete raises is caught by the except clause of the task;
\* what on_task_failed raises leaves the coroutine through the finally clause.
TaskCallback(e, i, cb) ==
    /\ cur = 0
    /\ i \in TaskIdx(e)
    /\ LET t == TasksOf(e)[i].id
           task == TasksOf(e)[i]
           e1 == [engs[e] EXCEPT !.incb[t] = None]
       IN  /\ engs[e].incb[t] # None
           /\ IF engs[e].incb[t] = "task_complete" /\ cb = "raise"
              THEN /\ theap' = SetTask(e, i, TaskFailure(task))
                   /\ engs' = [engs EXCEPT ![e] = AfterFailure(e1, TaskFailure(task))]
                   /\ hist' = [hist EXCEPT ![e] = CallsAfterFailure(@, e1, TaskFailure(task))]
              ELSE /\ engs' = [engs EXCEPT ![e] = [e1 EXCEPT !.active_tasks = @ \ {t}]]
                   /\ UNCHANGED <<theap, hist>>
    /\ resp' = NoResponse
    /\ UNCHANGED <<eager_start, heap, workflows, engines, cur, now, call, fresh, sessions, req>>

\* ---- OrchestratorAgent._get_workflow_status ----

\* (mutant) the template is looked up before the engine
StatusResponse_TemplateFirst(c) ==
    IF c.template # 0
    THEN [kind |-> "not_executed", command |-> "status", workflow_id |-> c.id,
          status |-> heap[c.template].status]
    ELSE NotFound("status", c.id)

\* the metadata of the response, lines 964-1069: c holds the handler's local
\* variables engine and workflow (0: None)
StatusResponse(c) ==
    IF c.engine # 0
    THEN [kind |-> "status", command |-> "status", workflow_id |-> c.id,
          status |-> WfOf(c.engine).status,
          start_time |-> WfOf(c.engine).start_time,
          end_time |-> WfOf(c.engine).end_time,
          error |-> WfOf(c.engine).error,
          tasks |-> [i \in TaskIdx(c.engine) |->
                       [id |-> TasksOf(c.engine)[i].id,
                        status |-> TasksOf(c.engine)[i].status,
                        error |-> TasksOf(c.engine)[i].error]]]
    ELSE IF c.template # 0
    THEN [kind |-> "not_executed", command |-> "status", workflow_id |-> c.id,
          status |-> heap[c.template].status]
    ELSE NotFound("status", c.id)

\* lines 959-964: the engine and the template are looked up; the handler then
\* suspends in add_assistant_message / save_session
GetStatusBegin(id) ==
    /\ cur = 0
    /\ call = NoCall
    /\ call' = [id |-> id, engine |-> engines[id],
                template |-> IF engines[id] # 0 THEN 0 ELSE workflows[id],
                fresh |-> id \in fresh]     \* history: the call started on a fresh id
    /\ resp' = NoResponse
    /\ UNCHANGED fresh
    /\ UNCHANGED <<eager_start, heap, theap, workflows, engines, engs, cur, now, hist>>

\* lines 1043-1070 (971-981, 997-1005): the response is built and returned
GetStatusEnd ==
    /\ cur = 0
    /\ call # NoCall
    /\ resp' = StatusResponse(call)
    /\ call' = NoCall
    /\ UNCHANGED <<fresh, sessions, req>>
    /\ UNCHANGED <<eager_start, heap, theap, workflows, engines, engs, cur, now, hist>>

\* the steps of the engines' coroutines
EngineStep ==
    \/ \E e \in Engines : ExecuteBegin(e)
    \/ \E e \in Engines : LoopTest(e)
    \/ \E e \in Engines : CreateTask(e)
    \/ \E e \in Engines : AddActive(e)
    \/ \E e \in Engines : Wake(e)
    \/ \E e \in Engines, cb1, cb2 \in {"return", "raise"} : Final(e, cb1, cb2)
    \/ \E e \in Engines, i \in 1..3, out \in {"suspend", "raise"} : ExecuteTaskBegin(e, i, out)
    \/ \E e \in Engines, i \in 1..3, out \in {"return", "raise"} : GatewayReturn(e, i, out)

\* one run, of any of the definitions
Next ==
    \/ \E id \in CallerIds, d \in Definitions : CreateWorkflow(id, d, "none") /\ UNCHANGED <<fresh, sessions, req>>
    \/ \E id \in CallerIds : (workflows[id] # 0 => Len(engs) < MaxRuns) /\ ExecuteWorkflow(id) /\ UNCHANGED <<fresh, sessions, req>>
    \/ \E id \in CallerIds : StopWorkflow(id) /\ UNCHANGED <<fresh, sessions, req>>
    \/ EngineStep

Spec == Init /\ [][Next]_vars

\* one run more, of the definitions ReuseDefinitions
NextReuse ==
    \/ \E id \in CallerIds, d \in ReuseDefinitions : CreateWorkflow(id, d, "none") /\ UNCHANGED <<fresh, sessions, req>>
    \/ \E id \in CallerIds : (workflows[id] # 0 => Len(engs) < MaxRuns + 1) /\ ExecuteWorkflow(id) /\ UNCHANGED <<fresh, sessions, req>>
    \/ \E id \in CallerIds : StopWorkflow(id) /\ UNCHANGED <<fresh, sessions, req>>
    \/ \E id \in CallerIds : GetStatusBegin(id) /\ UNCHANGED <<sessions, req>>
    \/ GetStatusEnd
    \/ EngineStep

SpecReuse == Init /\ [][NextReuse]_vars

\* one run with a clock that advances and with the workflow callbacks registered
\* on the engine, of the definitions EngineDefinitions
NextEngine ==
    \/ \E id \in CallerIds, d \in EngineDefinitions : CreateWorkflow(id, d, "none") /\ UNCHANGED <<fresh, sessions, req>>
    \/ \E id \in CallerIds : (workflows[id] # 0 => Len(engs) < MaxRuns) /\ ExecuteWorkflow(id) /\ UNCHANGED <<fresh, sessions, req>>
    \/ \E id \in CallerIds : StopWorkflow(id) /\ UNCHANGED <<fresh, sessions, req>>
    \/ \E e \in Engines, ev \in WorkflowEvents : SetCallback(e, ev)
    \/ Tick
    \/ EngineStep

SpecEngine == Init /\ [][NextEngine]_vars

\* one run with any of the four callbacks registered on the engine
NextCallbacks ==
    \/ \E id \in CallerIds, d \in EngineDefinitions : CreateWorkflow(id, d, "none") /\ UNCHANGED <<fresh, sessions, req>>
    \/ \E id \in CallerIds : (workflows[id] # 0 => Len(engs) < MaxRuns) /\ ExecuteWorkflow(id) /\ UNCHANGED <<fresh, sessions, req>>
    \/ \E id \in CallerIds : StopWorkflow(id) /\ UNCHANGED <<fresh, sessions, req>>
    \/ \E e \in Engines, ev \in CallbackEvents : SetCallback(e, ev)
    \/ \E e \in Engines, i \in 1..3, cb \in {"return", "raise"} : TaskCallback(e, i, cb)
    \/ EngineStep

SpecCallbacks == Init /\ [][NextCallbacks]_vars

\* one run of a task with a timeout, while time passes
NextTimeout ==
    \/ \E id \in CallerIds, d \in TimeoutDefinitions : CreateWorkflow(id, d, "none") /\ UNCHANGED <<fresh, sessions, req>>
    \/ \E id \in CallerIds : (workflows[id] # 0 => Len(engs) < MaxRuns) /\ ExecuteWorkflow(id) /\ UNCHANGED <<fresh, sessions, req>>
    \/ \E id \in CallerIds : StopWorkflow(id) /\ UNCHANGED <<fresh, sessions, req>>
    \/ Tick
    \/ EngineStep

SpecTimeout == Init /\ [][NextTimeout]_vars

\* ---- Workflow.get_next_tasks on any workflow ----

\* the values of TaskStatus
TaskStatuses == {PENDING, IN_PROGRESS, COMPLETED, FAILED, CANCELLED}
\* the ids and the dependency lists of the tasks of the workflows queried
ReadyIds == {"A", "B"}
ReadyDependencies == {<<>>, <<"A">>, <<"B">>, <<"A", "B">>, <<"ghost">>, <<"A", "ghost">>}

\* a task in any status (Task.from_dict, or the engine's writes)
TaskInStatus(id, dependencies, status) ==
    [Task(id, dependencies, 1) EXCEPT !.status = status]

\* the task lists of at most MaxReadyLen tasks
ReadyInputs ==
    UNION {[1..n -> {TaskInStatus(id, deps, st) :
                       id \in ReadyIds, deps \in ReadyDependencies, st \in TaskStatuses}] :
           n \in 0..MaxReadyLen}

\* a Workflow object with any of the task lists, stored under the id w1
InitReady ==
    /\ eager_start \in BOOLEAN
    /\ heap = [n \in 1..Len(IdOrder) |->
                 IF n = TemplateRef("w1") THEN Workflow("w1", n) ELSE Workflow(None, n)]
    /\ theap \in {[n \in 1..Len(IdOrder) |-> IF n = TemplateRef("w1") THEN tasks ELSE <<>>] :
                    tasks \in ReadyInputs}
    /\ workflows = [w \in WorkflowIds |-> IF w = "w1" THEN TemplateRef("w1") ELSE 0]
    /\ engines = [w \in WorkflowIds |-> 0]
    /\ engs = <<>>
    /\ cur = 0
    /\ now = 0
    /\ call = NoCall
    /\ resp = NoResponse
    /\ fresh = {}
    /\ hist = <<>>
    /\ sessions = StoredSessions
    /\ req = NoRequest

\* workflow.get_next_tasks() on the workflow stored under id (lines 223-250):
\* the list is returned and no attribute is assigned
GetNextTasks(id) ==
    /\ cur = 0
    /\ workflows[id] # 0
    /\ resp' = [kind |-> "next_tasks", command |-> "get_next_tasks", workflow_id |-> id,
                tasks |-> get_next_tasks(theap[heap[workflows[id]].tasks])]
    /\ UNCHANGED <<eager_start, heap, theap, workflows, engines, engs, cur, now, call, fresh, hist, sessions, req>>

NextReady == \E id \in CallerIds : GetNextTasks(id)

SpecReady == InitReady /\ [][NextReady]_vars

\* one run, of the definitions whose tasks have params
NextTenant ==
    \/ \E id \in CallerIds, d \in TenantDefinitions : CreateWorkflow(id, d, "none") /\ UNCHANGED <<fresh, sessions, req>>
    \/ \E id \in CallerIds : (workflows[id] # 0 => Len(engs) < MaxRuns) /\ ExecuteWorkflow(id) /\ UNCHANGED <<fresh, sessions, req>>
    \/ \E id \in CallerIds : StopWorkflow(id) /\ UNCHANGED <<fresh, sessions, req>>
    \/ EngineStep

SpecTenant == Init /\ [][NextTenant]_vars

\* one run, with definitions that lack a field
NextCreate ==
    \/ \E id \in CallerIds, d \in CreateDefinitions, defect \in Defects :
          /\ defect = "no_id" => \E u \in GeneratedIds : workflows[u] = 0
          /\ CreateWorkflow(id, d, defect)
          /\ UNCHANGED <<fresh, sessions, req>>
    \/ \E id \in WorkflowIds : (workflows[id] # 0 => Len(engs) < MaxRuns) /\ ExecuteWorkflow(id) /\ UNCHANGED <<fresh, sessions, req>>
    \/ \E id \in WorkflowIds : StopWorkflow(id) /\ UNCHANGED <<fresh, sessions, req>>
    \/ EngineStep

SpecCreate == Init /\ [][NextCreate]_vars

\* one run, with get_status calls, and with the history of the fresh ids
NextStatus ==
    \/ \E id \in CallerIds, d \in Definitions : CreateWorkflow(id, d, "none") /\ fresh' = fresh \cup {id}
          /\ UNCHANGED <<sessions, req>>
    \/ \E id \in CallerIds : (workflows[id] # 0 => Len(engs) < MaxRuns) /\ ExecuteWorkflow(id) /\ fresh' = fresh \ {id}
          /\ UNCHANGED <<sessions, req>>
    \/ \E id \in CallerIds : StopWorkflow(id) /\ UNCHANGED <<fresh, sessions, req>>
    \/ \E id \in CallerIds : GetStatusBegin(id) /\ UNCHANGED <<sessions, req>>
    \/ GetStatusEnd
    \/ EngineStep

SpecStatus == Init /\ [][NextStatus]_vars

\* ---- the HTTP entry point (functions/agents/orchestrator/__init__.py) ----

\* (mutant) the check compares the tenant only
SameTenantAndUser_TenantOnly(metadata, tenant_id, user_id) ==
    ~(metadata.tenant_id # tenant_id)

\* lines 282 and 372, negated: the session belongs to the caller
SameTenantAndUser(metadata, tenant_id, user_id) ==
    ~(metadata.tenant_id # tenant_id \/ metadata.user_id # user_id)

\* the responses of the handlers that carry an HTTP status of their own
HttpResponse(status_code, body) ==
    [kind |-> "http", command |-> None, status_code |-> status_code, body |-> body]
SessionNotFound == HttpResponse(404, [error |-> "Session not found"])
Unauthorized == HttpResponse(403, [error |-> "Unauthorized to access this session"])

\* history: the request main() hands to a handler
Request(method, tenant_id, user_id, session_id, workflow_id) ==
    [seq |-> 1 - req.seq, method |-> method, tenant_id |-> tenant_id, user_id |-> user_id,
     session_id |-> session_id, workflow_id |-> workflow_id]

\* what a request that ends before agent.process leaves alone
AgentUntouched ==
    UNCHANGED <<eager_start, heap, theap, workflows, engines, engs, cur, now, call, fresh, hist>>

\* OrchestratorAgent.process of the agent of session `agent`: the message is
\* appended and the command named by workflow_action runs. The workflows of
\* "s1" are the ones the model tracks; of another session only the messages.
process(agent, workflow_action, id, d) ==
    IF agent = "s1" /\ workflow_action = "create"
    THEN CreateWorkflow(id, d, "none") /\ UNCHANGED fresh
    ELSE IF agent = "s1" /\ workflow_action = "execute"
    THEN (workflows[id] # 0 => Len(engs) < MaxRuns) /\ ExecuteWorkflow(id) /\ UNCHANGED fresh
    ELSE IF agent = "s1" /\ workflow_action = "status"
    THEN GetStatusBegin(id)
    ELSE IF agent = "s1" /\ workflow_action = "stop"
    THEN StopWorkflow(id) /\ UNCHANGED fresh
    ELSE /\ resp' = HttpResponse(200, [session_id |-> agent])
         /\ AgentUntouched

\* lines 254-316
handle_post(tenant_id, user_id, session_id, workflow_action, id, d) ==
    /\ cur = 0
    /\ req' = Request("POST", tenant_id, user_id, session_id, id)
    /\ IF session_id # None /\ sessions[session_id] = NoSession
       THEN /\ resp' = SessionNotFound
            /\ UNCHANGED sessions
            /\ AgentUntouched
       ELSE IF session_id # None
               /\ ~SameTenantAndUser(sessions[session_id], tenant_id, user_id)
       THEN /\ resp' = Unauthorized
            /\ UNCHANGED sessions
            /\ AgentUntouched
       ELSE \E agent \in SessionIds :
              /\ IF session_id # None
                 THEN agent = session_id
                 ELSE agent = NextSessionId /\ sessions[agent] = NoSession
              /\ sessions[agent].messages < MaxMessages
              /\ sessions' = [sessions EXCEPT
                                ![agent] = IF session_id # None
                                           THEN [@ EXCEPT !.messages = @ + 1]
                                           ELSE [tenant_id |-> tenant_id, user_id |-> user_id,
                                                 messages |-> 1]]
              /\ process(agent, workflow_action, id, d)

\* lines 338-416; the session information carries the workflows of the agent
handle_get(tenant_id, user_id, session_id, id) ==
    /\ cur = 0
    /\ req' = Request("GET", tenant_id, user_id, session_id, id)
    /\ IF session_id = None
       THEN /\ resp' = HttpResponse(200,
                          [sessions |-> {s \in SessionIds :
                                           /\ sessions[s] # NoSession
                                           /\ sessions[s].tenant_id = tenant_id
                                           /\ sessions[s].user_id = user_id}])
            /\ UNCHANGED sessions
            /\ AgentUntouched
       ELSE IF sessions[session_id] = NoSession
       THEN /\ resp' = SessionNotFound
            /\ UNCHANGED sessions
            /\ AgentUntouched
       ELSE IF ~SameTenantAndUser(sessions[session_id], tenant_id, user_id)
       THEN /\ resp' = Unauthorized
            /\ UNCHANGED sessions
            /\ AgentUntouched
       ELSE IF id # None
       THEN /\ sessions[session_id].messages < MaxMessages
            /\ sessions' = [sessions EXCEPT ![session_id].messages = @ + 1]
            /\ process(session_id, "status", id, <<>>)
       ELSE /\ resp' = HttpResponse(200,
                          [session_id |-> session_id,
                           metadata |-> [tenant_id |-> sessions[session_id].tenant_id,
                                         user_id |-> sessions[session_id].user_id],
                           messages |-> sessions[session_id].messages,
                           workflows |-> IF session_id = "s1"
                                         THEN {w \in WorkflowIds : workflows[w] # 0}
                                         ELSE {}])
            /\ UNCHANGED sessions
            /\ AgentUntouched

\* the definitions a POST carries
HttpDefinitions == {GhostDef}

\* lines 223-226: a request of any caller, naming any session or none
NextHttp ==
    \/ \E c \in Callers, session_id \in SessionIds \cup {None},
          workflow_action \in {"create", "execute", "status", "stop", None},
          id \in CallerIds, d \in HttpDefinitions :
            handle_post(c.tenant_id, c.user_id, session_id, workflow_action, id, d)
    \/ \E c \in Callers, session_id \in SessionIds \cup {None}, id \in CallerIds \cup {None} :
            handle_get(c.tenant_id, c.user_id, session_id, id)
    \/ GetStatusEnd
    \/ EngineStep

SpecHttp == Init /\ [][NextHttp]_vars

Fairness ==
    \A e \in 1..MaxRuns :
        /\ WF_vars(e \in Engines /\ LoopTest(e))
        /\ WF_vars(e \in Engines /\ CreateTask(e))
        /\ WF_vars(e \in Engines /\ AddActive(e))
        /\ WF_vars(e \in Engines /\ \E cb1, cb2 \in {"return", "raise"} : Final(e, cb1, cb2))
        /\ SF_vars(e \in Engines /\ ExecuteBegin(e))
        /\ SF_vars(e \in Engines /\ Wake(e))
        /\ \A i \in 1..3 :
              /\ SF_vars(e \in Engines /\ \E out \in {"suspend", "raise"} : ExecuteTaskBegin(e, i, out))
              /\ SF_vars(e \in Engines /\ \E out \in {"return", "raise"} : GatewayReturn(e, i, out))
              /\ SF_vars(e \in Engines /\ \E cb \in {"return", "raise"} : TaskCallback(e, i, cb))

FairSpec == Spec /\ Fairness

\* the event loop runs every coroutine that can run and time passes; the
\* executor behind the gateway is not obliged to answer
FairnessTimeout ==
    /\ WF_vars(Tick)
    /\ \A e \in 1..MaxRuns :
        /\ WF_vars(e \in Engines /\ LoopTest(e))
        /\ WF_vars(e \in Engines /\ CreateTask(e))
        /\ WF_vars(e \in Engines /\ AddActive(e))
        /\ WF_vars(e \in Engines /\ \E cb1, cb2 \in {"return", "raise"} : Final(e, cb1, cb2))
        /\ SF_vars(e \in Engines /\ ExecuteBegin(e))
        /\ SF_vars(e \in Engines /\ Wake(e))
        /\ \A i \in 1..3 :
              SF_vars(e \in Engines /\ \E out \in {"suspend", "raise"} : ExecuteTaskBegin(e, i, out))

FairSpecTimeout == SpecTimeout /\ FairnessTimeout

\* the same for the specification with one run more
FairnessReuse ==
    \A e \in 1..(MaxRuns + 1) :
        /\ WF_vars(e \in Engines /\ LoopTest(e))
        /\ WF_vars(e \in Engines /\ CreateTask(e))
        /\ WF_vars(e \in Engines /\ AddActive(e))
        /\ WF_vars(e \in Engines /\ \E cb1, cb2 \in {"return", "raise"} : Final(e, cb1, cb2))
        /\ SF_vars(e \in Engines /\ ExecuteBegin(e))
        /\ SF_vars(e \in Engines /\ Wake(e))
        /\ \A i \in 1..3 :
              /\ SF_vars(e \in Engines /\ \E out \in {"suspend", "raise"} : ExecuteTaskBegin(e, i, out))
              /\ SF_vars(e \in Engines /\ \E out \in {"return", "raise"} : GatewayReturn(e, i, out))

FairSpecReuse == SpecReuse /\ FairnessReuse

\* ---- properties ----

Started(e) == e \in Engines /\ engs[e].pc # "created"
Returned(e) == e \in Engines /\ engs[e].pc = "returned"
RunsDef(e, d) == /\ e \in Engines
                 /\ Len(TasksOf(e)) = Len(d)
                 /\ \A i \in 1..Len(d) : TasksOf(e)[i].id = d[i].id

\* C1: a task turns IN_PROGRESS only in a state where every task named in its
\* dependencies exists and is COMPLETED; in the chain A <- B <- C, B has no
\* attempt before A is COMPLETED and C none before B is COMPLETED.
StartsAfterDependencies ==
    \A e \in Engines : \A i \in TaskIdx(e) :
        (TasksOf(e)[i].status # IN_PROGRESS /\ TasksOf(e)'[i].status = IN_PROGRESS)
        => \A k \in 1..Len(TasksOf(e)[i].dependencies) :
              LET d == get_task(TasksOf(e), TasksOf(e)[i].dependencies[k])
              IN  d # 0 /\ TasksOf(e)[d].status = COMPLETED

ChainOrder ==
    \A e \in Engines : RunsDef(e, ChainDef) =>
        /\ hist[e].attempts["B"] > 0 => TasksOf(e)[1].status = COMPLETED
        /\ hist[e].attempts["C"] > 0 => TasksOf(e)[2].status = COMPLETED

C1_DependencyOrder == []ChainOrder /\ [][StartsAfterDependencies]_vars

C1_Witness ==
    \E e \in Engines : /\ RunsDef(e, ChainDef)
                       /\ TasksOf(e)[3].status = IN_PROGRESS
                       /\ TasksOf(e)[1].status = COMPLETED
                       /\ TasksOf(e)[2].status = COMPLETED

\* C2: every execute() that has started eventually returns, with the workflow
\* COMPLETED, FAILED or CANCELLED.
C2_ExecuteReturns ==
    \A e \in 1..MaxRuns :
        Started(e) ~> (Returned(e) /\ engs[e].ret \in {COMPLETED, FAILED, CANCELLED})

\* C3: a task that is FAILED had exactly retry_limit gateway calls, all of
\* them failed, and its retry_count equals its retry_limit.
C3_RetryBound ==
    \A e \in Engines : \A i \in TaskIdx(e) :
        TasksOf(e)[i].status = FAILED =>
            /\ hist[e].attempts[TasksOf(e)[i].id] = TasksOf(e)[i].retry_limit
            /\ TasksOf(e)[i].retry_count = TasksOf(e)[i].retry_limit

\* C4: in a run of the workflow whose task M names a dependency that is no
\* task, M is never dispatched and stays PENDING, and the run, unless it is
\* stopped, ends FAILED with the stuck-workflow error.
GhostNeverReady ==
    \A e \in Engines : RunsDef(e, GhostDef) =>
        /\ TasksOf(e)[1].status = PENDING
        /\ "M" \notin hist[e].dispatched

C4_StuckDetected ==
    /\ []GhostNeverReady
    /\ \A e \in 1..MaxRuns :
          (Started(e) /\ RunsDef(e, GhostDef))
          ~> (Returned(e) /\ (hist[e].stopped \/ (engs[e].ret = FAILED /\ WfOf(e).error = ErrStuck)))

\* C5: when execute() returns from a run of the workflow of the independent
\* tasks X and Y with X FAILED and Y's gateway call answered, the workflow is
\* FAILED, Y is COMPLETED and Y's result is that answer; and a run that was not
\* stopped does not return while Y is not terminal.
ReturnStep(e) == engs[e].pc = "final" /\ engs'[e].pc = "returned"

SiblingSurvives ==
    \A e \in Engines : (RunsDef(e, ParallelDef) /\ ReturnStep(e)) =>
        /\ (TasksOf(e)[1].status = FAILED /\ hist[e].gold["Y"] # NoResult) =>
              /\ engs'[e].ret = FAILED
              /\ WfOf(e)'.status = FAILED
              /\ TasksOf(e)'[2].status = COMPLETED
              /\ TasksOf(e)'[2].result = hist[e].gold["Y"]
        /\ ~hist[e].stopped => TasksOf(e)[2].status \in {COMPLETED, FAILED}

C5_PartialFailure == [][SiblingSurvives]_vars

C5_Witness ==
    \E e \in Engines : /\ RunsDef(e, ParallelDef) /\ Returned(e)
                       /\ engs[e].ret = FAILED
                       /\ TasksOf(e)[1].status = FAILED
                       /\ TasksOf(e)[1].retry_count = 2
                       /\ TasksOf(e)[2].status = COMPLETED
                       /\ TasksOf(e)[2].result = <<"Y", 1>>

\* C6: once stop() was called during a run, the workflow status is CANCELLED,
\* and the workflow execute() returns is CANCELLED.
C6_StopMeansCancelled ==
    \A e \in Engines : hist[e].stopped =>
        /\ WfOf(e).status = CANCELLED
        /\ Returned(e) => engs[e].ret = CANCELLED

\* C7: after a stop() during a run, the tasks that were COMPLETED keep status
\* and result, the tasks that had not been dispatched are PENDING, and no task
\* is dispatched any more.
C7_StopFrame ==
    \A e \in Engines : hist[e].stopped =>
        /\ hist[e].dispatched = hist[e].snapDispatched
        /\ \A i \in TaskIdx(e) :
              /\ hist[e].snap[i].status = COMPLETED =>
                    /\ TasksOf(e)[i].status = COMPLETED
                    /\ TasksOf(e)[i].result = hist[e].snap[i].result
              /\ TasksOf(e)[i].id \notin hist[e].snapDispatched =>
                    TasksOf(e)[i].status = PENDING

C7_Witness ==
    \E e \in Engines : /\ hist[e].stopped /\ Returned(e)
                       /\ \E i \in TaskIdx(e) : hist[e].snap[i].status = COMPLETED
                       /\ \E i \in TaskIdx(e) : hist[e].snap[i].status = IN_PROGRESS
                                                /\ TasksOf(e)[i].status # IN_PROGRESS
                       /\ \E i \in TaskIdx(e) : TasksOf(e)[i].id \notin hist[e].dispatched

\* C8: every stored template is untouched (workflow and tasks PENDING,
\* retry_count 0, no result), and no two of the templates and runs share a
\* Workflow object or a task list.
Pristine(wfRef) ==
    /\ heap[wfRef].status = PENDING
    /\ heap[wfRef].error = None
    /\ \A i \in 1..Len(theap[heap[wfRef].tasks]) :
          LET t == theap[heap[wfRef].tasks][i]
          IN  t.status = PENDING /\ t.retry_count = 0 /\ t.result = NoResult /\ t.error = None

C8_RunsAreCopies ==
    /\ \A id \in WorkflowIds : workflows[id] # 0 => Pristine(workflows[id])
    /\ \A e \in Engines :
          /\ \A id \in WorkflowIds :
                workflows[id] # 0 =>
                    /\ engs[e].workflow # workflows[id]
                    /\ WfOf(e).tasks # heap[workflows[id]].tasks
          /\ \A f \in Engines :
                f # e => /\ engs[e].workflow # engs[f].workflow
                         /\ WfOf(e).tasks # WfOf(f).tasks

C8_Witness ==
    /\ Len(engs) = 2
    /\ WfOf(1).id = WfOf(2).id
    /\ workflows[WfOf(1).id] # 0
    /\ RunsDef(1, ChainDef) /\ RunsDef(2, ChainDef)
    /\ theap[heap[workflows[WfOf(1).id]].tasks] = ChainDef
    /\ TasksOf(1)[1].status = COMPLETED /\ TasksOf(2)[1].status = FAILED
    /\ TasksOf(1)[2].result # TasksOf(2)[2].result
    /\ WfOf(1).status = COMPLETED /\ WfOf(2).status = IN_PROGRESS

\* C9: the loop hands out a whole ready batch before it waits: while a task is
\* suspended in its gateway call, a task without dependencies that has never
\* been started is in the batch the loop is handing out.
InBatch(e, j) == \E k \in 1..Len(engs[e].batch) : engs[e].batch[k] = j

FinalStatusIsDerived ==
    \A e \in Engines :
        (ReturnStep(e) /\ \A i \in TaskIdx(e) : TasksOf(e)[i].status \in {COMPLETED, FAILED, CANCELLED})
        => IF \E i \in TaskIdx(e) : TasksOf(e)[i].status = FAILED
           THEN engs'[e].ret = FAILED /\ WfOf(e)'.status = FAILED /\ WfOf(e)'.error = ErrTasksFailed
           ELSE engs'[e].ret = COMPLETED /\ WfOf(e)'.status = COMPLETED /\ WfOf(e)'.error = None

C10_FinalStatus == [][FinalStatusIsDerived]_vars

C10_Witness ==
    \E e \in Engines :
        /\ Returned(e) /\ engs[e].ret = FAILED /\ WfOf(e).error = ErrTasksFailed
        /\ \A i \in TaskIdx(e) : TasksOf(e)[i].status \in {COMPLETED, FAILED, CANCELLED}
        /\ \E i \in TaskIdx(e) : TasksOf(e)[i].status = FAILED
        /\ \E i \in TaskIdx(e) : TasksOf(e)[i].status = COMPLETED

\* C11: when execute() returns, end_time is set, end_time >= start_time, and
\* the workflow status is neither PENDING nor IN_PROGRESS, whatever way the
\* loop was left (all tasks terminal, stuck, stopped, or a callback that raised).
StampedAtReturn ==
    \A e \in Engines : ReturnStep(e) =>
        /\ WfOf(e)'.end_time # NoTime
        /\ WfOf(e)'.start_time # NoTime
        /\ WfOf(e)'.end_time >= WfOf(e)'.start_time
        /\ WfOf(e)'.status \notin {PENDING, IN_PROGRESS}

C11_EndTimeStamped == [][StampedAtReturn]_vars

C11_Witness ==
    \E e \in Engines :
        /\ Returned(e)
        /\ WfOf(e).status = FAILED /\ WfOf(e).error = ErrCallback
        /\ WfOf(e).end_time > WfOf(e).start_time
        /\ \A i \in TaskIdx(e) : TasksOf(e)[i].status = COMPLETED
        /\ TasksOf(e) # <<>>

\* C12: every change of a task's status is PENDING -> IN_PROGRESS,
\* IN_PROGRESS -> COMPLETED, IN_PROGRESS -> FAILED, or IN_PROGRESS -> PENDING
\* with the incremented retry_count below retry_limit (a coroutine that starts
\* the task and fails in one segment takes PENDING -> IN_PROGRESS -> FAILED
\* at once); a COMPLETED or FAILED task keeps its status.
LegalTaskStep ==
    \A e \in Engines : \A i \in TaskIdx(e) :
        LET old == TasksOf(e)[i]
            new == TasksOf(e)'[i]
        IN  old.status # new.status =>
              \/ old.status = PENDING /\ new.status = IN_PROGRESS
              \/ old.status = IN_PROGRESS /\ new.status \in {COMPLETED, FAILED}
              \/ /\ old.status = IN_PROGRESS /\ new.status = PENDING
                 /\ new.retry_count = old.retry_count + 1
                 /\ new.retry_count < new.retry_limit
              \/ /\ old.status = PENDING /\ new.status = FAILED
                 /\ hist'[e].attempts[old.id] = hist[e].attempts[old.id] + 1

C12_TaskTransitions == [][LegalTaskStep]_vars

\* C13: once the workflow of a run is COMPLETED or FAILED and execute() has
\* returned, no later operation on the orchestrator changes its status (the
\* status moves PENDING -> IN_PROGRESS -> COMPLETED, FAILED or CANCELLED only).
FinishedStaysFinished ==
    \A e \in Engines :
        (Returned(e) /\ WfOf(e).status \in {COMPLETED, FAILED}) =>
            WfOf(e)'.status = WfOf(e).status

C13_FinishedKeepsStatus == [][FinishedStaysFinished]_vars

\* C14: get_status answers by what it found registered: for an engine, the
\* live workflow's status, timestamps, error and one entry per task; for a
\* template alone, PENDING; for neither, the not-found error; and no
\* get_status step changes the workflows map, the engines map, a workflow or a
\* task.
GetStatusAnswer ==
    (call # NoCall /\ call' = NoCall) =>
        IF call.engine # 0
        THEN /\ resp'.kind = "status"
             /\ resp'.status = WfOf(call.engine).status
             /\ resp'.start_time = WfOf(call.engine).start_time
             /\ resp'.end_time = WfOf(call.engine).end_time
             /\ resp'.error = WfOf(call.engine).error
             /\ DOMAIN resp'.tasks = TaskIdx(call.engine)
             /\ \A i \in TaskIdx(call.engine) :
                   /\ resp'.tasks[i].id = TasksOf(call.engine)[i].id
                   /\ resp'.tasks[i].status = TasksOf(call.engine)[i].status
        ELSE IF call.template # 0
        THEN resp'.kind = "not_executed" /\ resp'.status = PENDING
        ELSE resp'.kind = "error" /\ resp'.error = "workflow_not_found"

GetStatusFrame ==
    call' # call => UNCHANGED <<workflows, engines, engs, heap, theap>>

C14_GetStatus == [][GetStatusAnswer /\ GetStatusFrame]_vars

C14_Witness ==
    /\ resp.kind = "status"
    /\ resp.status = IN_PROGRESS
    /\ resp.start_time # NoTime /\ resp.end_time = NoTime
    /\ Len(resp.tasks) = 2
    /\ resp.tasks[1].status = PENDING /\ resp.tasks[1].error = ErrRetrying
    /\ resp.tasks[2].status = COMPLETED

\* C15: a get_status(id) that starts after create_workflow stored a template
\* under id and returns before any execute_workflow(id) reports the workflow
\* PENDING and every task it lists PENDING.
FreshIsPending ==
    (call # NoCall /\ call' = NoCall /\ call.fresh /\ call.id \in fresh) =>
        /\ resp'.kind \in {"not_executed", "status"}
        /\ resp'.status = PENDING
        /\ resp'.kind = "status" => \A i \in DOMAIN resp'.tasks : resp'.tasks[i].status = PENDING

C15_FreshTemplatePending == [][FreshIsPending]_vars

\* C16: execute_workflow of an id without template and stop_workflow of an
\* id without engine answer with an error and change neither map, no
\* workflow, no task and no engine: no engine is created, nothing is dispatched.
MissingIdIsError ==
    \A id \in WorkflowIds :
        ( /\ resp'.command \in {"execute", "stop"}
          /\ resp'.workflow_id = id
          /\ IF resp'.command = "execute" THEN workflows[id] = 0 ELSE engines[id] = 0 )
        => /\ resp'.kind = "error"
           /\ UNCHANGED <<workflows, engines, engs, heap, theap, hist, cur>>

C16_MissingIdRejected == [][MissingIdIsError]_vars

C16_Witness ==
    /\ resp = NotFound("stop", "w1")
    /\ workflows["w1"] # 0
    /\ theap[heap[workflows["w1"]].tasks] # <<>>
    /\ engines["w1"] = 0 /\ engs = <<>>

\* C17: a create_workflow whose definition lacks the workflow id or name, or
\* has a task without id or agent_type, stores nothing: no template exists
\* under an id, or with a task id, that the orchestrator made up.
C17_DefectiveCreateStoresNothing ==
    \A id \in WorkflowIds : workflows[id] # 0 =>
        /\ id \notin GeneratedIds
        /\ \A i \in 1..Len(theap[heap[workflows[id]].tasks]) :
              theap[heap[workflows[id]].tasks][i].id # "U"

\* C18: when execute_workflow registers a new engine for an id whose earlier
\* run is still in progress, the engines map names the newest run, stop_workflow
\* and get_status read and write the newest run only, and the earlier run
\* goes on until its execute() returns.
Superseded(e) ==
    /\ e \in Engines
    /\ \E f \in Engines : f > e /\ WfOf(f).id = WfOf(e).id

NewestRegistered ==
    \A e \in Engines : ~Superseded(e) => engines[WfOf(e).id] = e

OnlyNewestTouched ==
    \A e \in Engines :
        (Superseded(e) /\ (resp'.command \in {"stop", "status"} \/ call' # call)) =>
            /\ engs'[e] = engs[e]
            /\ WfOf(e)' = WfOf(e)
            /\ TasksOf(e)' = TasksOf(e)
            /\ (call = NoCall /\ call' # NoCall) => call'.engine # e

EarlierRunEnds ==
    \A e \in 1..(MaxRuns + 1) :
        (Superseded(e) /\ engs[e].pc \notin {"created", "returned"}) ~> Returned(e)

C18_Supersession == []NewestRegistered /\ [][OnlyNewestTouched]_vars /\ EarlierRunEnds

\* C18 without the claim that the earlier run ends
C18_SupersessionSafety == []NewestRegistered /\ [][OnlyNewestTouched]_vars

C18_SafetyWitness ==
    /\ Len(engs) = 2
    /\ WfOf(1).id = WfOf(2).id
    /\ RunsDef(1, ChainDef) /\ RunsDef(2, ChainDef)
    /\ hist[2].stopped /\ WfOf(2).status = CANCELLED
    /\ ~hist[1].stopped /\ Returned(1) /\ engs[1].ret = COMPLETED
    /\ resp.kind = "status" /\ resp.status = CANCELLED

\* C19: the tenant_id and user_id of every create_session call, in the
\* keyword arguments and in the session metadata, are the engine's own,
\* whatever the params of the task are.
C19_ScopeReachesGateway ==
    \A e \in Engines : \A i \in TaskIdx(e) :
        LET t == TasksOf(e)[i].id
        IN  hist[e].attempts[t] > 0 =>
              /\ hist[e].kwargs[t].tenant_id = engs[e].tenant_id
              /\ hist[e].kwargs[t].user_id = engs[e].user_id
              /\ hist[e].metadata[t].tenant_id = engs[e].tenant_id
              /\ hist[e].metadata[t].user_id = engs[e].user_id

\* the gateway call of task i of engine e has been out for the task's timeout
TimedOut(e, i) ==
    /\ e \in Engines /\ i \in TaskIdx(e)
    /\ TasksOf(e)[i].status = IN_PROGRESS
    /\ TasksOf(e)[i].timeout # NoTimeout
    /\ engs[e].waiting[TasksOf(e)[i].id] > 0
    /\ now >= hist[e].sent[TasksOf(e)[i].id] + TasksOf(e)[i].timeout

\* C20: a task whose gateway call has been out for the task's timeout
\* leaves IN_PROGRESS, even if the executor never answers.
C20_TimeoutEndsAttempt ==
    \A e \in 1..MaxRuns : \A i \in 1..1 :
        TimedOut(e, i) ~> ~(e \in Engines /\ i \in TaskIdx(e) /\ TasksOf(e)[i].status = IN_PROGRESS)

\* C21: execute() of an engine with a workflow never raises: whatever a
\* callback raises, the coroutine ends by returning the workflow.
C21_ExecuteNeverRaises ==
    \A e \in Engines : engs[e].pc # "raised"

\* the executions of task t of engine e that have been dispatched and have not ended
InFlight(e, t) ==
    engs[e].sched[t] + engs[e].waiting[t] + (IF engs[e].incb[t] # None THEN 1 ELSE 0)

\* C22: at most one execution of a task is in flight: a task that has an
\* execution dispatched and not ended is not dispatched again.
C22_OneExecutionInFlight ==
    \A e \in Engines : \A t \in TaskIds : InFlight(e, t) <= 1

\* a step that sets the stuck-workflow failure starts in a state where no task
\* of the run is ready or IN_PROGRESS and no execution is in flight
StuckOnlyWhenIdle ==
    \A e \in Engines :
        (heap[engs[e].workflow].error # ErrStuck /\ heap'[engs[e].workflow].error = ErrStuck)
        => /\ get_next_tasks(TasksOf(e)) = <<>>
           /\ \A i \in TaskIdx(e) : TasksOf(e)[i].status # IN_PROGRESS
           /\ \A t \in TaskIds : InFlight(e, t) = 0

\* C23: the engine declares the workflow stuck only when the ready set is
\* empty and no task execution is in flight.
C23_StuckOnlyWhenIdle == [][StuckOnlyWhenIdle]_vars

\* a run was declared stuck after one of its tasks had been executed
C23_Witness ==
    \E e \in Engines :
        /\ WfOf(e).error = ErrStuck
        /\ \E i \in TaskIdx(e) : hist[e].attempts[TasksOf(e)[i].id] > 0

\* every execution the main loop has dispatched has ended, and the loop is
\* not inside its for statement
AllEnded(e) ==
    /\ hist[e].dispatched # {}
    /\ \A t \in TaskIds : InFlight(e, t) = 0
    /\ engs[e].pc \notin {"dispatch", "starting", "add"}

\* C24: once every dispatched execution has ended, the active-task set is empty.
C24_EndedMeansInactive ==
    \A e \in Engines : AllEnded(e) => engs[e].active_tasks = {}

\* task i of engine e is the task the for loop has just created an execution
\* for (line 371) and has not yet added to the set (line 372)
BeingDispatched(e, i) ==
    /\ engs[e].pc = "add"
    /\ i = Head(engs[e].batch)

StoppedInFlight(e, i) ==
    /\ e \in Engines /\ i \in TaskIdx(e)
    /\ hist[e].stopped
    /\ TasksOf(e)[i].id \in hist[e].snapDispatched
    /\ InFlight(e, TasksOf(e)[i].id) > 0

\* the execution of task i has ended and its outcome is in the task
OutcomeApplied(e, i) ==
    /\ e \in Engines /\ i \in TaskIdx(e)
    /\ InFlight(e, TasksOf(e)[i].id) = 0
    /\ LET task == TasksOf(e)[i]
       IN  \/ /\ task.status = COMPLETED
              /\ task.result # NoResult
              /\ task.result = hist[e].gold[task.id]
           \/ /\ task.status \in {PENDING, FAILED}
              /\ task.error \in {ErrRetrying, ErrTask}
              /\ task.retry_count > 0

RunEnds(e) == engs[e].pc = "final" /\ engs'[e].pc \in {"returned", "raised"}

\* at the end of a run the registered callback of the final status has been
\* awaited once, and workflow_failed not at all for a COMPLETED run
CallbackOncePerRun ==
    \A e \in Engines :
        RunEnds(e) =>
            LET status == heap'[engs[e].workflow].status
                calls == hist'[e].wf_calls
            IN  /\ (status = FAILED /\ engs[e].on_workflow_failed)
                      => calls["workflow_failed"] = 1
                /\ (status = COMPLETED /\ engs[e].on_workflow_complete)
                      => calls["workflow_complete"] = 1
                /\ status = COMPLETED => calls["workflow_failed"] = 0

\* C27: a run that ends FAILED has invoked the registered workflow_failed
\* callback exactly once; a run that ends COMPLETED has invoked
\* workflow_complete exactly once and workflow_failed not at all.
C27_WorkflowCallbackOnce == [][CallbackOncePerRun]_vars

\* what a step may do to the callback counts of the tasks
TaskCallbackAtTransition ==
    \A e \in Engines : \A i \in TaskIdx(e) :
        LET old == TasksOf(e)[i]
            new == theap'[WfOf(e).tasks][i]
            c == hist[e].task_calls[old.id]
            c2 == hist'[e].task_calls[old.id]
        IN  /\ c2.task_complete <= 1
            /\ c2.task_failed <= 1
            /\ ~(c2.task_complete > 0 /\ c2.task_failed > 0)
            /\ (c2.task_failed > c.task_failed) => new.status = FAILED
            /\ (old.status # FAILED /\ new.status = FAILED /\ engs[e].on_task_failed)
                  => c2.task_failed = c.task_failed + 1
            /\ (old.status # COMPLETED /\ new.status = COMPLETED /\ engs[e].on_task_complete)
                  => c2.task_complete = c.task_complete + 1

\* C28: for each task each of the two task callbacks is invoked at most once,
\* no task gets both, task_failed is invoked only for a FAILED task and is
\* invoked when a task turns FAILED, and task_complete is invoked when a
\* task turns COMPLETED.
C28_TaskCallbackOnce == [][TaskCallbackAtTransition]_vars

\* the end of an awaited task_complete callback leaves the task as it was,
\* and a task whose task_complete callback was invoked has no further attempt
CompleteCallbackObserves ==
    \A e \in Engines : \A i \in TaskIdx(e) :
        LET old == TasksOf(e)[i]
            new == theap'[WfOf(e).tasks][i]
        IN  /\ (engs[e].incb[old.id] = "task_complete" /\ engs'[e].incb[old.id] # "task_complete")
                  => /\ new.status = COMPLETED
                     /\ new.result = old.result
                     /\ new.retry_count = old.retry_count
            /\ hist'[e].attempts[old.id] > hist[e].attempts[old.id]
                  => hist[e].task_calls[old.id].task_complete = 0

\* C29: if the task_complete callback raises after the executor call
\* succeeded, the task stays COMPLETED with its result, its retry_count is
\* not incremented, and the task is not executed again.
C29_CallbackDoesNotUndoTask == [][CompleteCallbackObserves]_vars

\* task j depends on task i through at most n dependency steps
RECURSIVE DependsOn(_, _, _, _)
DependsOn(tasks, j, i, n) ==
    /\ n > 0
    /\ \E k \in 1..Len(tasks[j].dependencies) :
          LET d == get_task(tasks, tasks[j].dependencies[k])
          IN  d # 0 /\ (d = i \/ DependsOn(tasks, d, i, n - 1))

\* the tasks that depend on a FAILED task are PENDING and were never dispatched
DependentsUntouched ==
    \A e \in Engines : \A i, j \in TaskIdx(e) :
        (TasksOf(e)[i].status = FAILED /\ DependsOn(TasksOf(e), j, i, Len(TasksOf(e))))
        => /\ TasksOf(e)[j].status = PENDING
           /\ TasksOf(e)[j].id \notin hist[e].dispatched

\* a task of the run has FAILED and stop() has not been called
FailedTerminally(e) ==
    /\ e \in Engines
    /\ ~hist[e].stopped
    /\ \E i \in TaskIdx(e) : TasksOf(e)[i].status = FAILED

\* execute() has returned FAILED with every task without dependencies
\* terminal, or stop() was called
EndsFailed(e) ==
    /\ e \in Engines
    /\ \/ hist[e].stopped
       \/ /\ Returned(e)
          /\ engs[e].ret = FAILED
          /\ \A j \in TaskIdx(e) :
                TasksOf(e)[j].dependencies = <<>> => TasksOf(e)[j].status \in {COMPLETED, FAILED}

\* C30: after a task has failed terminally its dependents stay PENDING and
\* are never dispatched, the tasks without dependencies reach a terminal
\* status, and execute() ends the run FAILED.
C30_FailureEndsRun ==
    /\ []DependentsUntouched
    /\ \A e \in 1..MaxRuns : FailedTerminally(e) ~> EndsFailed(e)

\* a COMPLETED task has failed retry_count times before the attempt that
\* succeeded, fewer than retry_limit, and holds that attempt's result; a
\* workflow that failed for its tasks has a FAILED task
RetriedTaskCompleted ==
    \A e \in Engines :
        /\ \A i \in TaskIdx(e) :
              LET task == TasksOf(e)[i]
              IN  task.status = COMPLETED =>
                    /\ task.retry_count = hist[e].attempts[task.id] - 1
                    /\ task.retry_count > 0 => task.retry_count < task.retry_limit
                    /\ task.result # NoResult
                    /\ task.result = hist[e].gold[task.id]
        /\ WfOf(e).error = ErrTasksFailed =>
              \E i \in TaskIdx(e) : TasksOf(e)[i].status = FAILED

\* task i is PENDING again after k failed attempts, in a run not stopped
AwaitsRetry(e, i, k) ==
    /\ e \in Engines /\ i \in TaskIdx(e)
    /\ ~hist[e].stopped
    /\ TasksOf(e)[i].status = PENDING
    /\ TasksOf(e)[i].retry_count = k
    /\ hist[e].attempts[TasksOf(e)[i].id] = k

\* the task has had another attempt, or stop() was called
Redispatched(e, i, k) ==
    /\ e \in Engines /\ i \in TaskIdx(e)
    /\ hist[e].stopped \/ hist[e].attempts[TasksOf(e)[i].id] > k

\* C31: a task that failed k < retry_limit times is dispatched again after
\* each failure; when an attempt succeeds it is COMPLETED with retry_count = k
\* and that attempt's result, and it does not make the workflow FAILED.
C31_RetryThenSuccess ==
    /\ []RetriedTaskCompleted
    /\ \A e \in 1..MaxRuns : \A i \in 1..3 : \A k \in 1..2 :
          AwaitsRetry(e, i, k) ~> Redispatched(e, i, k)

\* task X failed once, was dispatched again and is COMPLETED with the result
\* of its second attempt, in a run that returned COMPLETED
C31_Witness ==
    \E e \in Engines : \E i \in TaskIdx(e) :
        /\ TasksOf(e)[i].status = COMPLETED
        /\ TasksOf(e)[i].retry_count = 1
        /\ TasksOf(e)[i].retry_limit = 2
        /\ TasksOf(e)[i].result = Response(TasksOf(e)[i].id, 2)
        /\ hist[e].attempts[TasksOf(e)[i].id] = 2

\* C32: every task has retry_count <= retry_limit, retry_count is the number
\* of its failed attempts, and a FAILED task has retry_count = retry_limit.
C32_RetryCountBounded ==
    \A e \in Engines : \A i \in TaskIdx(e) :
        LET task == TasksOf(e)[i]
            ended == hist[e].attempts[task.id] - InFlight(e, task.id)
            failed == IF task.status = COMPLETED THEN ended - 1 ELSE ended
        IN  /\ task.retry_count <= task.retry_limit
            /\ eager_start => task.retry_count = failed
            /\ task.status = FAILED => task.retry_count = task.retry_limit

\* the ids of task i's dependencies each name a task of the list, and the
\* first task of that name is COMPLETED
DependenciesCompleted(tasks, i) ==
    \A k \in 1..Len(tasks[i].dependencies) :
        LET named == {j \in 1..Len(tasks) : tasks[j].id = tasks[i].dependencies[k]}
        IN  /\ named # {}
            /\ \A j \in named : (\A l \in named : j <= l) => tasks[j].status = COMPLETED

\* the list get_next_tasks returned holds, in list order and once each, the
\* PENDING tasks whose dependencies are completed, and no others
ReturnsReadyTasks ==
    resp.kind = "next_tasks" =>
        LET tasks == theap[heap[workflows[resp.workflow_id]].tasks]
            r == resp.tasks
        IN  /\ \A k \in 1..Len(r) :
                  /\ r[k] \in 1..Len(tasks)
                  /\ tasks[r[k]].status = PENDING
                  /\ DependenciesCompleted(tasks, r[k])
                  /\ "ghost" \notin {tasks[r[k]].dependencies[d] : d \in 1..Len(tasks[r[k]].dependencies)}
            /\ \A i \in 1..Len(tasks) :
                  (tasks[i].status = PENDING /\ DependenciesCompleted(tasks, i))
                  => \E k \in 1..Len(r) : r[k] = i
            /\ \A k, l \in 1..Len(r) : k < l => r[k] < r[l]

\* the call changes nothing but the value it returns
GetNextTasksIsPure ==
    resp'.kind = "next_tasks" =>
        UNCHANGED <<eager_start, heap, theap, workflows, engines, engs, cur, now, call, fresh, hist, sessions, req>>

\* C33: get_next_tasks() returns exactly the PENDING tasks whose every
\* dependency id resolves to a COMPLETED task of the workflow, in list order,
\* never a task with a dependency id that names no task, and changes no state.
C33_GetNextTasks == []ReturnsReadyTasks /\ [][GetNextTasksIsPure]_vars

\* of two PENDING tasks the one without dependencies was returned, the one
\* that waits on a missing id was not
C33_Witness ==
    /\ resp.kind = "next_tasks"
    /\ LET tasks == theap[heap[workflows["w1"]].tasks]
       IN  /\ Len(tasks) = 2
           /\ tasks[1].status = PENDING /\ tasks[1].dependencies = <<"A", "ghost">>
           /\ tasks[2].status = PENDING /\ tasks[2].dependencies = <<>>
           /\ resp.tasks = <<2>>

\* the step belongs to an execution of task i of engine e: the execution is
\* created, starts, resumes from the gateway call or from a callback
ExecutionStep(e, i) ==
    LET t == TasksOf(e)[i].id
    IN  \/ engs'[e].sched[t] # engs[e].sched[t]
        \/ engs'[e].waiting[t] # engs[e].waiting[t]
        \/ engs'[e].incb[t] # engs[e].incb[t]
        \/ hist'[e].attempts[t] # hist[e].attempts[t]

\* a step of a task's execution leaves every other task and every workflow
\* object as they were, and a task of a run changes in no other step
OwnTaskOnly ==
    \A e \in Engines :
        LET ref == WfOf(e).tasks
        IN  \A i \in TaskIdx(e) :
              /\ ExecutionStep(e, i) =>
                    /\ heap' = heap
                    /\ \A r \in 1..Len(theap) : r # ref => theap'[r] = theap[r]
                    /\ \A j \in TaskIdx(e) :
                          TasksOf(e)[j].id # TasksOf(e)[i].id => theap'[ref][j] = theap[ref][j]
              /\ theap'[ref][i] # theap[ref][i] => ExecutionStep(e, i)

\* C34: a task execution writes only the fields of its own task and the
\* active-task set, never another task or the workflow's status; the main
\* loop writes no task field.
C34_TaskWritesOwnFields == [][OwnTaskOnly]_vars

\* one task's execution has ended COMPLETED while its sibling is still
\* IN_PROGRESS in a workflow that is IN_PROGRESS
C34_Witness ==
    \E e \in Engines : \E i, j \in TaskIdx(e) :
        /\ TasksOf(e)[i].status = COMPLETED
        /\ TasksOf(e)[j].status = IN_PROGRESS
        /\ TasksOf(e)[j].result = NoResult
        /\ WfOf(e).status = IN_PROGRESS

\* C35: a workflow whose status is COMPLETED has every task COMPLETED, in
\* every state from then on.
C35_CompletedMeansAllCompleted ==
    \A e \in Engines :
        WfOf(e).status = COMPLETED =>
            \A i \in TaskIdx(e) : TasksOf(e)[i].status = COMPLETED

\* the run of a workflow without tasks ends by returning it COMPLETED, with
\* no error and with end_time set, and nothing was dispatched
EmptyRunCompletes ==
    \A e \in Engines :
        (RunsDef(e, EmptyDef) /\ RunEnds(e)) =>
            /\ engs'[e].pc = "returned"
            /\ engs'[e].ret = COMPLETED
            /\ heap'[engs[e].workflow].status = COMPLETED
            /\ heap'[engs[e].workflow].error = None
            /\ heap'[engs[e].workflow].end_time # NoTime
            /\ hist'[e].dispatched = {}
            /\ \A t \in TaskIds : hist'[e].attempts[t] = 0

\* C36: execute() on a workflow with zero tasks dispatches nothing, does not
\* report the workflow stuck, and returns COMPLETED with no error and
\* end_time set.
C36_EmptyWorkflowCompletes == [][EmptyRunCompletes]_vars

\* a run of the empty workflow has returned
C36_Witness ==
    \E e \in Engines :
        /\ RunsDef(e, EmptyDef)
        /\ Returned(e)
        /\ WfOf(e).status = COMPLETED
        /\ WfOf(e).end_time # NoTime

\* the request handled in this step names a stored session whose metadata
\* carries another tenant_id or another user_id than the caller's
ForeignRequest ==
    /\ req'.seq # req.seq
    /\ req'.session_id # None
    /\ sessions[req'.session_id] # NoSession
    /\ \/ sessions[req'.session_id].tenant_id # req'.tenant_id
       \/ sessions[req'.session_id].user_id # req'.user_id

\* the answer is the 403 error and nothing else
Answered403 ==
    /\ resp'.kind = "http"
    /\ resp'.status_code = 403
    /\ DOMAIN resp'.body = {"error"}

\* C37: a POST or GET that names a session whose stored metadata has a
\* tenant_id or user_id different from the caller's is answered with 403 and
\* has no effect: no message reaches agent.process (the sessions keep their
\* messages), no workflow is created, executed, stopped or queried (templates,
\* engines, runs and the suspended status call are unchanged), and the response
\* carries no session or workflow data.
C37_ForeignSessionForbidden ==
    [][ForeignRequest =>
          /\ Answered403
          /\ UNCHANGED <<sessions, workflows, engines, engs, heap, theap, hist, call, cur,
                         now, fresh, eager_start>>]_vars

\* a caller of another tenant was refused on the session that holds a
\* workflow and its run, after the owner had used the session
C37_Witness ==
    /\ req.method = "POST"
    /\ req.session_id = "s1"
    /\ req.tenant_id # sessions["s1"].tenant_id
    /\ resp = Unauthorized
    /\ sessions["s1"].messages > 0
    /\ workflows["w1"] # 0
    /\ engines["w1"] # 0

====
